---- MODULE Spec2Model ----
(***************************************************************************)
(* State-machine model of the real-time messaging core of NexusChatBackend *)
(* (src/src/socket.ts, src/src/routes/chat.ts).                            *)
(*                                                                         *)
(* socket.ts holds two initializeSocket handlers:                          *)
(*   "reject"  lines 14-179   authentication in the io.use middleware      *)
(*   "accept"  lines 195-459  handshake accepted, authentication inside    *)
(*                            the 'connection' callback                    *)
(* `strategy` says which one is installed.  Every async handler is cut at  *)
(* its awaits: one action per segment between two awaits, the awaited      *)
(* persistence call executing atomically at the head of the segment that   *)
(* resumes after it.                                                       *)
(***************************************************************************)
EXTENDS Integers, Sequences, FiniteSets, TLC

\* ------------------------------------------------------------------ bounds
MaxConns == 2
MaxOps == 2
MaxSessions == 2
MaxMessages == 2

\* ------------------------------------------------------------------ domains
Users == {"alice", "bob", "carol"}
None == "none"
Conns == 1..MaxConns
OpIds == 1..MaxOps
\* chatSessionId values a client may send: 0 = absent, an id never created
AbsentId == 0
BogusId == MaxSessions + 1
\* message content as a sequence of characters; NoContent = undefined
NoContent == <<"undefined">>

VARIABLES
  strategy,      \* which initializeSocket is installed
  conn,          \* per socket: transport open, authentication phase, credentials, socket.userId
  onlineUsers,   \* Map userId -> socketId (0 = no entry)
  rooms,         \* adapter room membership: socket -> set of chat session ids
  chatSessions,  \* ChatSession table, id = index
  messages,      \* Message table, id = index
  ops,           \* handler invocations suspended at an await
  clock,         \* logical value of new Date() for read timestamps (ticks when one is stored)
  out,           \* events delivered by the last step, in emission order
  last           \* what the last step was

vars == <<strategy, conn, onlineUsers, rooms, chatSessions, messages, ops, clock, out, last>>

\* ------------------------------------------------------------------ helpers
RECURSIVE SetToSeq(_)
SetToSeq(S) ==
  IF S = {} THEN <<>>
  ELSE LET m == CHOOSE x \in S : \A y \in S : x <= y
       IN <<m>> \o SetToSeq(S \ {m})

\* String.prototype.trim on a character sequence
RECURSIVE TrimLeft(_)
TrimLeft(s) == IF s # <<>> /\ Head(s) = " " THEN TrimLeft(Tail(s)) ELSE s

RECURSIVE TrimRight(_)
TrimRight(s) ==
  IF s # <<>> /\ s[Len(s)] = " " THEN TrimRight(SubSeq(s, 1, Len(s) - 1)) ELSE s

Trim(s) == TrimRight(TrimLeft(s))

\* faulty variant: !content alone, without the trim
ContentFalsy(content) == content = NoContent \/ content = <<>>

\* !content || !content.trim()
ContentMissing(content) ==
  \/ content = NoContent
  \/ content = <<>>
  \/ Trim(content) = <<>>

NoPayload == [user |-> None, users |-> {}, sid |-> 0, mid |-> 0, mids |-> {}, text |-> ""]
Ev(to, ev, p) == [to |-> to, ev |-> ev, p |-> p]

NewConn == [open |-> FALSE, phase |-> "new", cred |-> "nocreds", userId |-> None, asked |-> FALSE]
IdleOp == [kind |-> "idle", pc |-> "idle", conn |-> 0, user |-> None,
           receiverId |-> None, sid |-> 0, content |-> <<>>, mids |-> {},
           session |-> 0, mid |-> 0]
\* last: the action, the socket it ran for (0 = a REST request), its outcome
\* and, when the step turned a request down, the invocation it turned down
Step(act, c, o, res) == [act |-> act, conn |-> c, op |-> o, res |-> res]

\* sockets currently in the namespace (io.sockets.sockets): the accept
\* handler admits a socket before authenticating it, the reject handler only
\* after the middleware called next()
Connected(c) ==
  /\ conn[c].open
  /\ \/ conn[c].phase = "authed"
     \/ strategy = "accept" /\ conn[c].phase = "verifying"

\* faulty variant: packets are delivered to closed sockets too
SocketEmitAlways(c, ev, p) == <<[to |-> c, ev |-> ev, p |-> p]>>

\* socket.emit: a packet for a closed socket is discarded
SocketEmit(c, ev, p) == IF conn[c].open THEN <<Ev(c, ev, p)>> ELSE <<>>

\* faulty variant: the broadcast reaches the registered sockets only
BroadcastToRegistered(c, ev, p) ==
  LET s == SetToSeq({d \in Conns : d # c /\ \E u \in Users : onlineUsers[u] = d})
  IN [k \in 1..Len(s) |-> Ev(s[k], ev, p)]

\* socket.broadcast.emit: every socket of the namespace but c
BroadcastEmit(c, ev, p) ==
  LET targets == {d \in Conns : d # c /\ Connected(d)}
      s == SetToSeq(targets)
  IN [k \in 1..Len(s) |-> Ev(s[k], ev, p)]

\* io.to(`chat:${sid}`).emit: the adapter sends to the member ids that still
\* name a socket of the namespace
RoomEmit(sid, ev, p) ==
  LET s == SetToSeq({d \in Conns : sid \in rooms[d] /\ Connected(d)})
  IN [k \in 1..Len(s) |-> Ev(s[k], ev, p)]

\* io.to(socketId).emit: the room named after the socket id
IdEmit(c, ev, p) == IF c \in Conns /\ Connected(c) THEN <<Ev(c, ev, p)>> ELSE <<>>

OnlineKeys == {u \in Users : onlineUsers[u] # 0}

FreeOp == CHOOSE i \in OpIds : ops[i].kind = "idle" /\ \A j \in OpIds : ops[j].kind = "idle" => i <= j
HasFreeOp == \E i \in OpIds : ops[i].kind = "idle"

\* ------------------------------------------------------------------ initial state
Init ==
  /\ strategy \in {"reject", "accept"}
  /\ conn = [c \in Conns |-> NewConn]
  /\ onlineUsers = [u \in Users |-> 0]
  /\ rooms = [c \in Conns |-> {}]
  /\ chatSessions = <<>>
  /\ messages = <<>>
  /\ ops = [i \in OpIds |-> IdleOp]
  /\ clock = 1
  /\ out = <<>>
  /\ last = Step("init", 0, IdleOp, "")

\* ------------------------------------------------------------------ connection lifecycle
\* faulty variant: the handlers are registered as soon as the socket connects
HandlersRegisteredOnConnect(c) == conn[c].phase \in {"verifying", "authed"}

\* faulty variant: a socket's events are handled only while no handler is
\* suspended at an await
HandlersRegisteredWhenIdle(c) ==
  conn[c].phase = "authed" /\ \A i \in OpIds : ops[i].kind = "idle"

\* the event handlers (join-chat, send-message, ..., disconnect) are
\* registered only once the 'connection' callback has passed authentication
HandlersRegistered(c) == conn[c].phase = "authed"

\* what auth.api.getSession returns for the presented credentials
VerifierUser(cred) == IF cred \in Users THEN cred ELSE None

\* faulty variant: an existing entry of the user is kept
RegisterIfAbsent(c, u, conn1) ==
  /\ onlineUsers' = IF onlineUsers[u] = 0 THEN [onlineUsers EXCEPT ![u] = c] ELSE onlineUsers
  /\ out' = <<>>

\* onlineUsers.set; socket.broadcast.emit('user-online'); socket.emit('online-users')
Register(c, u, conn1) ==
  /\ onlineUsers' = [onlineUsers EXCEPT ![u] = c]
  /\ out' = BroadcastEmit(c, "user-online", [NoPayload EXCEPT !.user = u])
            \o (IF conn1[c].open
                THEN <<Ev(c, "online-users",
                          [NoPayload EXCEPT !.users = OnlineKeys \cup {u}])>>
                ELSE <<>>)

\* faulty variant: the socket is closed without an auth_error event
AuthErrorNone(c, text) == <<>>

\* socket.emit('auth_error', { message }) of 245 and 254
AuthError(c, text) == SocketEmit(c, "auth_error", [NoPayload EXCEPT !.text = text])

\* faulty variant: the failure of one authentication takes every socket down
RejectedAll(c) ==
  [d \in Conns |-> IF d = c THEN [conn[d] EXCEPT !.phase = "rejected", !.open = FALSE]
                            ELSE [conn[d] EXCEPT !.open = FALSE]]

\* socket.disconnect() of 246 and 255; next(new Error(...)) of 30 and 37
Rejected(c) == [conn EXCEPT ![c].phase = "rejected", ![c].open = FALSE]

\* a client opens a transport connection presenting `cred`; socket ids are
\* handed out in order
Connect(c, cred) ==
  /\ conn[c].phase = "new"
  /\ \A d \in Conns : d < c => conn[d].phase # "new"
  /\ IF strategy = "accept" /\ cred = "nocreds"
     THEN \* lines 216-221: auth_error, disconnect, no verifier call
          /\ conn' = [conn EXCEPT ![c] = [NewConn EXCEPT !.phase = "rejected", !.cred = cred]]
          /\ out' = <<Ev(c, "auth_error", [NoPayload EXCEPT !.text = "Authentication required"])>>
          /\ last' = Step("Connect", c, IdleOp, "noCredentials")
     ELSE \* accept: await getAuth()/getSession (224-241); reject: await getSession (22)
          /\ conn' = [conn EXCEPT ![c] = [NewConn EXCEPT !.open = TRUE, !.phase = "verifying",
                                                         !.cred = cred, !.asked = TRUE]]
          /\ out' = <<>>
          /\ last' = Step("Connect", c, IdleOp, "verifying")
  /\ UNCHANGED <<strategy, onlineUsers, rooms, chatSessions, messages, ops, clock>>

\* the verifier answers (or throws) for connection c
AuthResolve(c, throws) ==
  /\ conn[c].phase = "verifying"
  /\ LET u == VerifierUser(conn[c].cred)
         failed == throws \/ u = None
     IN IF failed
        THEN /\ conn' = Rejected(c)
             /\ out' = IF strategy = "accept"
                       THEN AuthError(c, IF throws THEN "Authentication failed"
                                                   ELSE "Invalid session")
                       ELSE <<>>
             /\ last' = Step("AuthResolve", c, IdleOp, IF throws THEN "verifierError" ELSE "noSession")
             /\ UNCHANGED onlineUsers
        ELSE IF strategy = "reject" /\ ~conn[c].open
        THEN \* the client left while the middleware was pending: the
             \* 'connection' event is never emitted for this socket
             /\ conn' = [conn EXCEPT ![c].phase = "abandoned"]
             /\ out' = <<>>
             /\ last' = Step("AuthResolve", c, IdleOp, "abandoned")
             /\ UNCHANGED onlineUsers
        ELSE LET conn1 == [conn EXCEPT ![c].phase = "authed", ![c].userId = u]
             IN /\ conn' = conn1
                /\ Register(c, u, conn1)
                /\ last' = Step("AuthResolve", c, IdleOp, "registered")
  /\ UNCHANGED <<strategy, rooms, chatSessions, messages, ops, clock>>

\* the transport of c closes (client leaves, network drop)
Disconnect(c) ==
  /\ conn[c].open
  /\ conn' = [conn EXCEPT ![c].open = FALSE]
  /\ rooms' = [rooms EXCEPT ![c] = {}]
  /\ IF HandlersRegistered(c)
     THEN \* 'disconnect' handler (172-177, 452-457)
          /\ onlineUsers' = [onlineUsers EXCEPT ![conn[c].userId] = 0]
          /\ out' = BroadcastEmit(c, "user-offline", [NoPayload EXCEPT !.user = conn[c].userId])
          /\ last' = Step("Disconnect", c, IdleOp, "handler")
     ELSE /\ UNCHANGED onlineUsers
          /\ out' = <<>>
          /\ last' = Step("Disconnect", c, IdleOp, "noHandler")
  /\ UNCHANGED <<strategy, chatSessions, messages, ops, clock>>

ClientEvents == {"join-chat", "leave-chat", "send-message", "typing", "mark-read"}

\* an event arrives on a socket that has no listener for it
DropEvent(c, ev) ==
  /\ conn[c].open
  /\ ~HandlersRegistered(c)
  /\ out' = <<>>
  /\ last' = Step("DropEvent", c, IdleOp, ev)
  /\ UNCHANGED <<strategy, conn, onlineUsers, rooms, chatSessions, messages, ops, clock>>

\* ------------------------------------------------------------------ persistence
SessionIds == 1..Len(chatSessions)
MessageIds == 1..Len(messages)

\* faulty variant: the participant test accepts every user
AnyoneParticipates(s, u) == TRUE

\* session.participant1Id === userId || session.participant2Id === userId
IsParticipant(s, u) ==
  \/ chatSessions[s].participant1Id = u
  \/ chatSessions[s].participant2Id = u

\* where: { id }
FindById(sid) == {s \in SessionIds : s = sid}

\* faulty variant: the lookup drops the participant filter
FindForAnyUser(sid, u) == {s \in 1..Len(chatSessions) : s = sid}

\* where: { id, OR: [{participant1Id: u}, {participant2Id: u}] }
FindForUser(sid, u) == {s \in FindById(sid) : IsParticipant(s, u)}

\* where: { OR: [{participant1Id: a, participant2Id: b}, {participant1Id: b, participant2Id: a}] }
FindPair(a, b) ==
  {s \in SessionIds :
     \/ chatSessions[s].participant1Id = a /\ chatSessions[s].participant2Id = b
     \/ chatSessions[s].participant1Id = b /\ chatSessions[s].participant2Id = a}

\* where: chatSessionId ? { id: chatSessionId } : { OR: [...] }
SendWhere(sid, u, r) == IF sid # AbsentId THEN FindById(sid) ELSE FindPair(u, r)

\* the partner the handlers notify: participant1Id === userId ? participant2Id : participant1Id
OtherParticipant(s, u) ==
  IF chatSessions[s].participant1Id = u
  THEN chatSessions[s].participant2Id
  ELSE chatSessions[s].participant1Id

NewSession(a, b) == [participant1Id |-> a, participant2Id |-> b, updatedAt |-> 0]
NewMessage(s, u, r, text) ==
  [chatSessionId |-> s, senderId |-> u, receiverId |-> r, content |-> text, readAt |-> 0]

\* faulty variant: the update leaves the row as it is
TouchNothing(s) == chatSessions

\* prisma.chatSession.update({ data: { updatedAt: new Date() } }); updatedAt is
\* kept as the number of such updates the row has received
TouchSession(s) == [chatSessions EXCEPT ![s].updatedAt = @ + 1]

\* room left in the tables for one more row, counting the creates already awaited
SessionRoom ==
  Len(chatSessions) + Cardinality({i \in OpIds : ops[i].pc = "createSession"}) < MaxSessions
MessageRoom ==
  Len(messages) + Cardinality({i \in OpIds : ops[i].pc = "createMessage"}) < MaxMessages

Finish(i) == ops' = [ops EXCEPT ![i] = IdleOp]
Goto(i, pc) == ops' = [ops EXCEPT ![i].pc = pc]

\* ------------------------------------------------------------------ join-chat / leave-chat
\* socket.join is adapter.addAll(socket.id, rooms): the adapter records the
\* membership under the socket's id without looking at the connection state,
\* also for a socket whose rooms were already cleared by its close
SocketJoin(c, sid) == [rooms EXCEPT ![c] = @ \cup {sid}]

JoinStart(c, sid) ==
  /\ conn[c].open /\ HandlersRegistered(c)
  /\ IF strategy = "accept"
     THEN \* 271-282: await prisma.chatSession.findFirst
          /\ HasFreeOp
          /\ ops' = [ops EXCEPT ![FreeOp] =
                       [IdleOp EXCEPT !.kind = "join", !.pc = "find", !.conn = c,
                                      !.user = conn[c].userId, !.sid = sid]]
          /\ last' = Step("JoinStart", c, IdleOp, "await")
          /\ UNCHANGED rooms
     ELSE \* 54-57: no lookup
          /\ rooms' = SocketJoin(c, sid)
          /\ last' = Step("JoinStart", c, IdleOp, "joined")
          /\ UNCHANGED ops
  /\ out' = <<>>
  /\ UNCHANGED <<strategy, conn, onlineUsers, chatSessions, messages, clock>>

JoinFind(i, fail) ==
  /\ ops[i].kind = "join" /\ ops[i].pc = "find"
  /\ LET c == ops[i].conn
         found == FindForUser(ops[i].sid, ops[i].user)
     IN IF fail
        THEN /\ out' = SocketEmit(c, "error", [NoPayload EXCEPT !.text = "Failed to join chat"])
             /\ last' = Step("JoinFind", c, IdleOp, "dbError")
             /\ UNCHANGED rooms
        ELSE IF found = {}
        THEN /\ out' = SocketEmit(c, "error", [NoPayload EXCEPT !.text = "Chat session not found"])
             /\ last' = Step("JoinFind", c, ops[i], "notFound")
             /\ UNCHANGED rooms
        ELSE /\ rooms' = SocketJoin(c, ops[i].sid)
             /\ out' = <<>>
             /\ last' = Step("JoinFind", c, IdleOp, "joined")
  /\ Finish(i)
  /\ UNCHANGED <<strategy, conn, onlineUsers, chatSessions, messages, clock>>

\* faulty variant: leave-chat makes the socket leave every room it is in
LeaveAll(c, sid) ==
  /\ conn[c].open /\ HandlersRegistered(c)
  /\ rooms' = [rooms EXCEPT ![c] = {}]
  /\ out' = <<>>
  /\ last' = Step("Leave", c, [IdleOp EXCEPT !.sid = sid],
                  IF sid \in rooms[c] THEN "left" ELSE "notMember")
  /\ UNCHANGED <<strategy, conn, onlineUsers, chatSessions, messages, ops, clock>>

\* 60-63, 298-301
Leave(c, sid) ==
  /\ conn[c].open /\ HandlersRegistered(c)
  /\ rooms' = [rooms EXCEPT ![c] = @ \ {sid}]
  /\ out' = <<>>
  /\ last' = Step("Leave", c, [IdleOp EXCEPT !.sid = sid],
                  IF sid \in rooms[c] THEN "left" ELSE "notMember")
  /\ UNCHANGED <<strategy, conn, onlineUsers, chatSessions, messages, ops, clock>>

\* ------------------------------------------------------------------ send-message
\* faulty variant: the catch block only logs
SendFailedSilently(c) == <<>>

\* the error event of the catch block: 'error' (391) / 'message-error' (111)
SendFailed(c) ==
  IF strategy = "accept"
  THEN SocketEmit(c, "error", [NoPayload EXCEPT !.text = "Failed to send message"])
  ELSE SocketEmit(c, "message-error", [NoPayload EXCEPT !.text = "Failed to send message"])

MsgPayload(mid, s) == [NoPayload EXCEPT !.mid = mid, !.sid = s]

\* 375-385: message-notification to the receiver's registered socket unless
\* that socket is in the room
ReceiverNotification(r, s, mid) ==
  LET rs == onlineUsers[r]
  IN IF rs # 0 /\ Connected(rs) /\ s \notin rooms[rs]
     THEN <<Ev(rs, "message-notification", MsgPayload(mid, s))>>
     ELSE <<>>

\* 104-108: new-message to the receiver's registered socket id
ReceiverDirect(r, s, mid) ==
  LET rs == onlineUsers[r]
  IN IF rs # 0 THEN IdEmit(rs, "new-message", MsgPayload(mid, s)) ELSE <<>>

\* the invocation as the handler's parameters and closure hold it
SendOp(c, content, r, sid) ==
  [IdleOp EXCEPT !.kind = "send", !.conn = c, !.user = conn[c].userId,
                 !.pc = IF strategy = "accept" THEN "find" ELSE "createMessage",
                 !.receiverId = r, !.sid = sid, !.content = content,
                 !.session = IF strategy = "accept" THEN 0 ELSE sid]

SendStart(c, content, r, sid) ==
  /\ conn[c].open /\ HandlersRegistered(c)
  /\ IF strategy = "accept" /\ ContentMissing(content)
     THEN \* 312-315
          /\ out' = SocketEmit(c, "error", [NoPayload EXCEPT !.text = "Message content is required"])
          /\ last' = Step("SendStart", c, SendOp(c, content, r, sid), "contentRequired")
          /\ UNCHANGED ops
     ELSE /\ HasFreeOp
          /\ strategy = "reject" => MessageRoom
          /\ ops' = [ops EXCEPT ![FreeOp] = SendOp(c, content, r, sid)]
          /\ out' = <<>>
          /\ last' = Step("SendStart", c, IdleOp, "await")
  /\ UNCHANGED <<strategy, conn, onlineUsers, rooms, chatSessions, messages, clock>>

\* 318-343: the findFirst answers
SendFind(i, fail) ==
  /\ ops[i].kind = "send" /\ ops[i].pc = "find"
  /\ LET c == ops[i].conn
         found == SendWhere(ops[i].sid, ops[i].user, ops[i].receiverId)
     IN IF fail
        THEN /\ out' = SendFailed(c)
             /\ last' = Step("SendFind", c, IdleOp, "dbError")
             /\ Finish(i)
        ELSE IF found = {}
        THEN /\ SessionRoom
             /\ out' = <<>>
             /\ last' = Step("SendFind", c, IdleOp, "create")
             /\ Goto(i, "createSession")
        ELSE \E s \in found :
               IF IsParticipant(s, ops[i].user)
               THEN /\ MessageRoom
                    /\ out' = <<>>
                    /\ last' = Step("SendFind", c, IdleOp, "found")
                    /\ ops' = [ops EXCEPT ![i].pc = "createMessage", ![i].session = s]
               ELSE /\ out' = SocketEmit(c, "error",
                                [NoPayload EXCEPT !.text = "You are not part of this chat session"])
                    /\ last' = Step("SendFind", c, ops[i], "notParticipant")
                    /\ Finish(i)
  /\ UNCHANGED <<strategy, conn, onlineUsers, rooms, chatSessions, messages, clock>>

\* 331-336: prisma.chatSession.create answers
SendCreateSession(i, fail) ==
  /\ ops[i].kind = "send" /\ ops[i].pc = "createSession"
  /\ LET c == ops[i].conn
     IN IF fail \/ ops[i].receiverId \notin Users
        THEN /\ out' = SendFailed(c)
             /\ last' = Step("SendCreateSession", c, IdleOp, "dbError")
             /\ Finish(i)
             /\ UNCHANGED chatSessions
        ELSE /\ MessageRoom
             /\ chatSessions' = Append(chatSessions, NewSession(ops[i].user, ops[i].receiverId))
             /\ ops' = [ops EXCEPT ![i].pc = "createMessage", ![i].session = Len(chatSessions) + 1]
             /\ out' = <<>>
             /\ last' = Step("SendCreateSession", c, IdleOp, "created")
  /\ UNCHANGED <<strategy, conn, onlineUsers, rooms, messages, clock>>

\* 346-361 / 75-90: prisma.message.create answers
SendCreateMessage(i, fail) ==
  /\ ops[i].kind = "send" /\ ops[i].pc = "createMessage"
  /\ LET c == ops[i].conn
         text == IF strategy = "accept" THEN Trim(ops[i].content) ELSE ops[i].content
         violates == \/ ops[i].receiverId \notin Users
                     \/ ops[i].session \notin SessionIds
                     \/ text = NoContent
     IN IF fail \/ violates
        THEN /\ out' = SendFailed(c)
             /\ last' = Step("SendCreateMessage", c, IdleOp, "dbError")
             /\ Finish(i)
             /\ UNCHANGED messages
        ELSE /\ messages' = Append(messages,
                              NewMessage(ops[i].session, ops[i].user, ops[i].receiverId, text))
             /\ ops' = [ops EXCEPT ![i].pc = "update", ![i].mid = Len(messages) + 1]
             /\ out' = <<>>
             /\ last' = Step("SendCreateMessage", c, IdleOp, "created")
  /\ UNCHANGED <<strategy, conn, onlineUsers, rooms, chatSessions, clock>>

\* 364-388 / 93-108: prisma.chatSession.update answers, then the emits
SendUpdate(i, fail) ==
  /\ ops[i].kind = "send" /\ ops[i].pc = "update"
  /\ LET c == ops[i].conn
         s == ops[i].session
         mid == ops[i].mid
     IN IF fail
        THEN /\ out' = SendFailed(c)
             /\ last' = Step("SendUpdate", c, IdleOp, "dbError")
             /\ UNCHANGED chatSessions
        ELSE /\ chatSessions' = TouchSession(s)
             /\ out' = IF strategy = "accept"
                       THEN RoomEmit(s, "new-message", MsgPayload(mid, s))
                            \o ReceiverNotification(ops[i].receiverId, s, mid)
                            \o SocketEmit(c, "message-sent", [NoPayload EXCEPT !.mid = mid])
                       ELSE RoomEmit(s, "new-message", MsgPayload(mid, s))
                            \o ReceiverDirect(ops[i].receiverId, s, mid)
             /\ last' = Step("SendUpdate", c, IdleOp, "sent")
  /\ Finish(i)
  /\ UNCHANGED <<strategy, conn, onlineUsers, rooms, messages, clock>>

\* ------------------------------------------------------------------ typing
\* 116-121, 396-401: socket.to(room).emit excludes the sender
Typing(c, sid) ==
  /\ conn[c].open /\ HandlersRegistered(c)
  /\ out' = LET t == SetToSeq({d \in Conns : d # c /\ sid \in rooms[d] /\ Connected(d)})
            IN [k \in 1..Len(t) |->
                  Ev(t[k], "user-typing", [NoPayload EXCEPT !.user = conn[c].userId, !.sid = sid])]
  /\ last' = Step("Typing", c, [IdleOp EXCEPT !.sid = sid], "typing")
  /\ UNCHANGED <<strategy, conn, onlineUsers, rooms, chatSessions, messages, ops, clock>>

\* ------------------------------------------------------------------ mark-read (socket)
\* faulty variant: the filter drops receiverId: userId
ReadFilterAnyReceiver(m, u, mids) == m \in mids /\ messages[m].readAt = 0

\* faulty variant: the filter drops readAt: null
ReadFilterAnyState(m, u, mids) == m \in mids /\ messages[m].receiverId = u

\* where: { id: { in: messageIds }, receiverId: userId, readAt: null }
ReadFilter(m, u, mids) ==
  /\ m \in mids
  /\ messages[m].receiverId = u
  /\ messages[m].readAt = 0

\* prisma.message.updateMany({ where, data: { readAt: new Date() } })
MarkRows(rows) == [m \in MessageIds |-> IF m \in rows THEN [messages[m] EXCEPT !.readAt = clock]
                                                     ELSE messages[m]]
Tick(rows) == IF rows = {} THEN clock ELSE clock + 1

ReadStart(c, sid, mids) ==
  /\ conn[c].open /\ HandlersRegistered(c)
  /\ HasFreeOp
  /\ ops' = [ops EXCEPT ![FreeOp] =
               [IdleOp EXCEPT !.kind = "read", !.pc = "find", !.conn = c,
                              !.user = conn[c].userId, !.sid = sid, !.mids = mids]]
  /\ out' = <<>>
  /\ last' = Step("ReadStart", c, IdleOp, "await")
  /\ UNCHANGED <<strategy, conn, onlineUsers, rooms, chatSessions, messages, clock>>

\* 129-141, 409-421
ReadFind(i, fail) ==
  /\ ops[i].kind = "read" /\ ops[i].pc = "find"
  /\ LET found == FindForUser(ops[i].sid, ops[i].user)
     IN IF fail
        THEN /\ last' = Step("ReadFind", ops[i].conn, IdleOp, "dbError")
             /\ Finish(i)
        ELSE IF found = {}
        THEN /\ last' = Step("ReadFind", ops[i].conn, ops[i], "notFound")
             /\ Finish(i)
        ELSE /\ last' = Step("ReadFind", ops[i].conn, IdleOp, "found")
             /\ ops' = [ops EXCEPT ![i].pc = "update", ![i].session = ops[i].sid]
  /\ out' = <<>>
  /\ UNCHANGED <<strategy, conn, onlineUsers, rooms, chatSessions, messages, clock>>

\* 144-166, 424-446
ReadUpdate(i, fail) ==
  /\ ops[i].kind = "read" /\ ops[i].pc = "update"
  /\ LET u == ops[i].user
         rows == {m \in MessageIds : ReadFilter(m, u, ops[i].mids)}
         senderSocketId == onlineUsers[OtherParticipant(ops[i].session, u)]
     IN IF fail
        THEN /\ out' = <<>>
             /\ last' = Step("ReadUpdate", ops[i].conn, IdleOp, "dbError")
             /\ UNCHANGED <<messages, clock>>
        ELSE /\ messages' = MarkRows(rows)
             /\ clock' = Tick(rows)
             /\ out' = IF senderSocketId # 0
                       THEN IdEmit(senderSocketId, "messages-read",
                                   [NoPayload EXCEPT !.sid = ops[i].sid, !.mids = ops[i].mids])
                       ELSE <<>>
             /\ last' = Step("ReadUpdate", ops[i].conn, ops[i],
                             IF rows = {} THEN "noRows" ELSE "updated")
  /\ Finish(i)
  /\ UNCHANGED <<strategy, conn, onlineUsers, rooms, chatSessions>>

\* ------------------------------------------------------------------ REST POST /session
\* chat.ts 16-24; the request is authenticated as u by authenticateToken
RestSessionStart(u, p2) ==
  /\ IF p2 = None \/ p2 = u
     THEN /\ last' = Step("RestSessionStart", 0, IdleOp, "400")
          /\ UNCHANGED ops
     ELSE /\ HasFreeOp
          /\ ops' = [ops EXCEPT ![FreeOp] =
                       [IdleOp EXCEPT !.kind = "restSession", !.pc = "find", !.user = u,
                                      !.receiverId = p2]]
          /\ last' = Step("RestSessionStart", 0, IdleOp, "await")
  /\ out' = <<>>
  /\ UNCHANGED <<strategy, conn, onlineUsers, rooms, chatSessions, messages, clock>>

\* chat.ts 26-55
RestSessionFind(i, fail) ==
  /\ ops[i].kind = "restSession" /\ ops[i].pc = "find"
  /\ LET found == FindPair(ops[i].user, ops[i].receiverId)
     IN IF fail
        THEN /\ last' = Step("RestSessionFind", 0, IdleOp, "500")
             /\ Finish(i)
        ELSE IF found = {}
        THEN /\ SessionRoom
             /\ last' = Step("RestSessionFind", 0, IdleOp, "create")
             /\ Goto(i, "createSession")
        ELSE /\ last' = Step("RestSessionFind", 0, IdleOp, "200")
             /\ Finish(i)
  /\ out' = <<>>
  /\ UNCHANGED <<strategy, conn, onlineUsers, rooms, chatSessions, messages, clock>>

\* chat.ts 56-83
RestSessionCreate(i, fail) ==
  /\ ops[i].kind = "restSession" /\ ops[i].pc = "createSession"
  /\ IF fail \/ ops[i].receiverId \notin Users
     THEN /\ last' = Step("RestSessionCreate", 0, IdleOp, "500")
          /\ UNCHANGED chatSessions
     ELSE /\ chatSessions' = Append(chatSessions, NewSession(ops[i].user, ops[i].receiverId))
          /\ last' = Step("RestSessionCreate", 0, IdleOp, "200")
  /\ Finish(i)
  /\ out' = <<>>
  /\ UNCHANGED <<strategy, conn, onlineUsers, rooms, messages, clock>>

\* ------------------------------------------------------------------ REST POST /session/:sessionId/read
\* where: { chatSessionId: sessionId, receiverId: currentUserId, readAt: null }
RestReadFilter(m, u, sid) ==
  /\ messages[m].chatSessionId = sid
  /\ messages[m].receiverId = u
  /\ messages[m].readAt = 0

\* Array.from(io.sockets.sockets.values()).find(socket => socket.userId === u):
\* the sockets map keeps connection order
FirstSocketOf(u) ==
  LET mine == {c \in Conns : Connected(c) /\ conn[c].userId = u}
  IN IF mine = {} THEN 0 ELSE CHOOSE c \in mine : \A d \in mine : c <= d

RestReadStart(u, sid) ==
  /\ HasFreeOp
  /\ ops' = [ops EXCEPT ![FreeOp] =
               [IdleOp EXCEPT !.kind = "restRead", !.pc = "find", !.user = u, !.sid = sid]]
  /\ out' = <<>>
  /\ last' = Step("RestReadStart", 0, IdleOp, "await")
  /\ UNCHANGED <<strategy, conn, onlineUsers, rooms, chatSessions, messages, clock>>

\* chat.ts 174-186
RestReadFind(i, fail) ==
  /\ ops[i].kind = "restRead" /\ ops[i].pc = "find"
  /\ LET found == FindForUser(ops[i].sid, ops[i].user)
     IN IF fail
        THEN /\ last' = Step("RestReadFind", 0, IdleOp, "500")
             /\ Finish(i)
        ELSE IF found = {}
        THEN /\ last' = Step("RestReadFind", 0, ops[i], "404")
             /\ Finish(i)
        ELSE /\ last' = Step("RestReadFind", 0, IdleOp, "found")
             /\ ops' = [ops EXCEPT ![i].pc = "update", ![i].session = ops[i].sid]
  /\ out' = <<>>
  /\ UNCHANGED <<strategy, conn, onlineUsers, rooms, chatSessions, messages, clock>>

\* chat.ts 189-198
RestReadUpdate(i, fail) ==
  /\ ops[i].kind = "restRead" /\ ops[i].pc = "update"
  /\ LET rows == {m \in MessageIds : RestReadFilter(m, ops[i].user, ops[i].sid)}
     IN IF fail
        THEN /\ last' = Step("RestReadUpdate", 0, IdleOp, "500")
             /\ Finish(i)
             /\ UNCHANGED <<messages, clock>>
        ELSE /\ messages' = MarkRows(rows)
             /\ clock' = Tick(rows)
             /\ last' = Step("RestReadUpdate", 0, ops[i],
                             IF rows = {} THEN "noRows" ELSE "updated")
             /\ Goto(i, "findMany")
  /\ out' = <<>>
  /\ UNCHANGED <<strategy, conn, onlineUsers, rooms, chatSessions>>

\* chat.ts 201-237
RestReadEmit(i, fail) ==
  /\ ops[i].kind = "restRead" /\ ops[i].pc = "findMany"
  /\ LET u == ops[i].user
         updatedMessages == {m \in MessageIds :
                               /\ messages[m].chatSessionId = ops[i].sid
                               /\ messages[m].receiverId = u
                               /\ messages[m].readAt # 0}
         senderSocket == FirstSocketOf(OtherParticipant(ops[i].session, u))
     IN IF fail
        THEN /\ out' = <<>>
             /\ last' = Step("RestReadEmit", 0, IdleOp, "500")
        ELSE /\ out' = IF senderSocket # 0
                       THEN <<Ev(senderSocket, "messages-read",
                                 [NoPayload EXCEPT !.sid = ops[i].sid, !.mids = updatedMessages])>>
                       ELSE <<>>
             /\ last' = Step("RestReadEmit", 0, IdleOp, "200")
  /\ Finish(i)
  /\ UNCHANGED <<strategy, conn, onlineUsers, rooms, chatSessions, messages, clock>>

\* ------------------------------------------------------------------ specifications
InitAccept == Init /\ strategy = "accept"

\* users are interchangeable: socket 1 is alice's, socket 2 bob's, any further carol's
UserOf(c) == IF c = 1 THEN "alice" ELSE IF c = 2 THEN "bob" ELSE "carol"

\* prisma/schema.prisma is not part of the sources.  The strongest uniqueness
\* it can declare on ChatSession is @@unique([participant1Id, participant2Id]),
\* under which a create throws when a row with the same ordered pair exists.
\* SpecRace and SpecPairsSeq assume that index.
OrderedDuplicate(i) ==
  \E s \in SessionIds :
    /\ chatSessions[s].participant1Id = ops[i].user
    /\ chatSessions[s].participant2Id = ops[i].receiverId

\* --- first sends between alice and bob that carry no conversation id, which
\* may overlap
PairUsers == {"alice", "bob"}
Peer(c) == IF UserOf(c) = "alice" THEN "bob" ELSE "alice"
NextRace ==
  \/ \E c \in Conns : Connect(c, UserOf(c))
  \/ \E c \in Conns : AuthResolve(c, FALSE)
  \/ \E c \in Conns : SendStart(c, <<"h">>, Peer(c), AbsentId)
  \/ \E i \in OpIds : SendFind(i, FALSE)
  \/ \E i \in OpIds : SendCreateSession(i, OrderedDuplicate(i))
  \/ \E i \in OpIds : SendCreateMessage(i, FALSE)
  \/ \E i \in OpIds : SendUpdate(i, FALSE)
SpecRace == InitAccept /\ [][NextRace]_vars

\* --- get-or-create of a pair's conversation by socket sends (conversation id
\* absent or unknown) and REST POST /session, one request at a time: a
\* request starts only when no other is awaiting persistence
NoneInFlight == \A i \in OpIds : ops[i].kind = "idle"
NextPairsSeq ==
  \/ \E c \in Conns : Connect(c, UserOf(c))
  \/ \E c \in Conns : AuthResolve(c, FALSE)
  \/ \E c \in Conns, sid \in {AbsentId, BogusId} :
       NoneInFlight /\ SendStart(c, <<"h">>, Peer(c), sid)
  \/ \E i \in OpIds : SendFind(i, FALSE)
  \/ \E i \in OpIds : SendCreateSession(i, OrderedDuplicate(i))
  \/ \E i \in OpIds : SendCreateMessage(i, FALSE)
  \/ \E i \in OpIds : SendUpdate(i, FALSE)
  \/ \E u \in PairUsers, p \in PairUsers : NoneInFlight /\ RestSessionStart(u, p)
  \/ \E i \in OpIds : RestSessionFind(i, FALSE)
  \/ \E i \in OpIds : RestSessionCreate(i, OrderedDuplicate(i))
SpecPairsSeq == InitAccept /\ [][NextPairsSeq]_vars

\* --- send-message under the accept handler: receivers inside and outside the
\* conversation, conversation id absent, existing, unknown; the content check
\* precedes every use of the other fields
ConvReceivers == {"bob", "carol"}
ConvSids == {AbsentId, 1, BogusId}
BadContents == {NoContent, <<>>, <<" ">>}
NextConv ==
  \/ \E c \in Conns : Connect(c, UserOf(c))
  \/ \E c \in Conns : AuthResolve(c, FALSE)
  \/ \E c \in Conns, r \in ConvReceivers, sid \in ConvSids : SendStart(c, <<" ", "h", " ">>, r, sid)
  \/ \E c \in Conns, t \in BadContents : SendStart(c, t, "bob", AbsentId)
  \/ \E i \in OpIds : SendFind(i, FALSE)
  \/ \E i \in OpIds : SendCreateSession(i, FALSE)
  \/ \E i \in OpIds : SendCreateMessage(i, FALSE)
  \/ \E i \in OpIds : SendUpdate(i, FALSE)
SpecConv == InitAccept /\ [][NextConv]_vars

\* --- admission: every kind of credential, verifier errors, disconnects at any
\* point, under both handlers, next to the traffic of admitted sockets
AuthCreds(c) == {"nocreds", "invalid", UserOf(c)}
NextAuth ==
  \/ \E c \in Conns : \E cred \in AuthCreds(c) : Connect(c, cred)
  \/ \E c \in Conns, t \in BOOLEAN : AuthResolve(c, t)
  \/ \E c \in Conns : Disconnect(c)
  \/ \E c \in Conns, ev \in ClientEvents : DropEvent(c, ev)
  \/ \E p \in {"bob"} : RestSessionStart("alice", p)
  \/ \E i \in OpIds : RestSessionFind(i, FALSE)
  \/ \E i \in OpIds : RestSessionCreate(i, FALSE)
  \/ \E c \in Conns : JoinStart(c, 1)
  \/ \E i \in OpIds : JoinFind(i, FALSE)
  \/ \E c \in Conns : Leave(c, 1)
  \/ \E c \in Conns, sid \in {AbsentId, 1} : SendStart(c, <<"h">>, "bob", sid)
  \/ \E i \in OpIds : SendFind(i, FALSE)
  \/ \E i \in OpIds : SendCreateSession(i, FALSE)
  \/ \E i \in OpIds : SendCreateMessage(i, FALSE)
  \/ \E i \in OpIds : SendUpdate(i, FALSE)
SpecAuth == Init /\ [][NextAuth]_vars

\* --- rooms under the accept handler: conversations of alice with bob and
\* with carol, joins of existing and unknown conversations by participants
\* and by outsiders, lookups that fail, leaves, typing, disconnects
RoomSids == {1, 2, BogusId}
NextRooms ==
  \/ \E c \in Conns : Connect(c, UserOf(c))
  \/ \E c \in Conns : AuthResolve(c, FALSE)
  \/ \E c \in Conns : Disconnect(c)
  \/ \E p \in {"bob", "carol"} : RestSessionStart("alice", p)
  \/ \E i \in OpIds : RestSessionFind(i, FALSE)
  \/ \E i \in OpIds : RestSessionCreate(i, FALSE)
  \/ \E c \in Conns, sid \in RoomSids : JoinStart(c, sid)
  \/ \E i \in OpIds, f \in BOOLEAN : JoinFind(i, f)
  \/ \E c \in Conns, sid \in RoomSids : Leave(c, sid)
  \/ \E c \in Conns, sid \in RoomSids : Typing(c, sid)
SpecRooms == InitAccept /\ [][NextRooms]_vars

\* --- read receipts under both handlers.  The database outlives the server
\* process while the registry does not: the server starts on a stored
\* conversation of alice and bob holding two unread messages, both for bob or
\* one for each of them, and on an empty conversation of alice and carol.
StoredMessages ==
  {<<NewMessage(1, "alice", "bob", <<"h">>), NewMessage(1, "alice", "bob", <<"h">>)>>,
   <<NewMessage(1, "alice", "bob", <<"h">>), NewMessage(1, "bob", "alice", <<"h">>)>>}
InitStored ==
  /\ strategy \in {"reject", "accept"}
  /\ conn = [c \in Conns |-> NewConn]
  /\ onlineUsers = [u \in Users |-> 0]
  /\ rooms = [c \in Conns |-> {}]
  /\ chatSessions = <<NewSession("alice", "bob"), NewSession("alice", "carol")>>
  /\ messages \in StoredMessages
  /\ ops = [i \in OpIds |-> IdleOp]
  /\ clock = 1
  /\ out = <<>>
  /\ last = Step("init", 0, IdleOp, "")

ReadSids == {1, 2, BogusId}
ReadMids == {{1}, {1, 2}}
NextRead ==
  \/ \E c \in Conns : Connect(c, UserOf(c))
  \/ \E c \in Conns : AuthResolve(c, FALSE)
  \/ \E c \in Conns : Disconnect(c)
  \/ \E c \in Conns, sid \in ReadSids, mids \in ReadMids : ReadStart(c, sid, mids)
  \/ \E i \in OpIds : ReadFind(i, FALSE)
  \/ \E i \in OpIds, f \in BOOLEAN : ReadUpdate(i, f)
  \/ \E u \in {"alice", "bob"} : RestReadStart(u, 1)
  \/ \E i \in OpIds : RestReadFind(i, FALSE)
  \/ \E i \in OpIds : RestReadUpdate(i, FALSE)
  \/ \E i \in OpIds : RestReadEmit(i, FALSE)
SpecRead == InitStored /\ [][NextRead]_vars

\* --- delivery under both handlers: alice and bob in one conversation, either
\* of them joined to its room or not, sends from both that may overlap
NextDeliver ==
  \/ \E c \in Conns : Connect(c, UserOf(c))
  \/ \E c \in Conns : AuthResolve(c, FALSE)
  \/ RestSessionStart("alice", "bob")
  \/ \E i \in OpIds : RestSessionFind(i, FALSE)
  \/ \E i \in OpIds : RestSessionCreate(i, FALSE)
  \/ \E c \in Conns : JoinStart(c, 1)
  \/ \E i \in OpIds : JoinFind(i, FALSE)
  \/ \E c \in Conns : SendStart(c, <<"h">>, Peer(c), 1)
  \/ \E i \in OpIds : SendFind(i, FALSE)
  \/ \E i \in OpIds : SendCreateSession(i, FALSE)
  \/ \E i \in OpIds : SendCreateMessage(i, FALSE)
  \/ \E i \in OpIds : SendUpdate(i, FALSE)
SpecDeliver == Init /\ [][NextDeliver]_vars

\* --- persistence failures under the accept handler: every database call of
\* send-message may fail, the sender may leave while a call is pending, the
\* peer may sit in the conversation's room
NextFault ==
  \/ \E c \in Conns : Connect(c, UserOf(c))
  \/ \E c \in Conns : AuthResolve(c, FALSE)
  \/ \E c \in Conns : Disconnect(c)
  \/ \E c \in Conns : JoinStart(c, 1)
  \/ \E i \in OpIds : JoinFind(i, FALSE)
  \/ \E c \in Conns, sid \in {AbsentId, 1} : SendStart(c, <<"h">>, Peer(c), sid)
  \/ \E i \in OpIds, f \in BOOLEAN : SendFind(i, f)
  \/ \E i \in OpIds, f \in BOOLEAN : SendCreateSession(i, f)
  \/ \E i \in OpIds, f \in BOOLEAN : SendCreateMessage(i, f)
  \/ \E i \in OpIds, f \in BOOLEAN : SendUpdate(i, f)
SpecFault == InitAccept /\ [][NextFault]_vars

\* --- presence under both handlers: the second socket belongs to alice too or
\* to bob, the verifier may fail, sockets close at any point, sockets sit in
\* the room of the conversation of alice and bob
PresenceCreds(c) == {"alice", UserOf(c)}
NextPresence ==
  \/ \E c \in Conns : \E cred \in PresenceCreds(c) : Connect(c, cred)
  \/ \E c \in Conns, t \in BOOLEAN : AuthResolve(c, t)
  \/ \E c \in Conns : Disconnect(c)
  \/ RestSessionStart("alice", "bob")
  \/ \E i \in OpIds : RestSessionFind(i, FALSE)
  \/ \E i \in OpIds : RestSessionCreate(i, FALSE)
  \/ \E c \in Conns : JoinStart(c, 1)
  \/ \E i \in OpIds : JoinFind(i, FALSE)
SpecPresence == Init /\ [][NextPresence]_vars

\* --- the reject-before-accept handler: conversations of alice with bob and
\* with carol, joins and sends by participants and by outsiders
InitReject == Init /\ strategy = "reject"
NextLegacy ==
  \/ \E c \in Conns : Connect(c, UserOf(c))
  \/ \E c \in Conns : AuthResolve(c, FALSE)
  \/ \E c \in Conns : Disconnect(c)
  \/ \E p \in {"bob", "carol"} : RestSessionStart("alice", p)
  \/ \E i \in OpIds : RestSessionFind(i, FALSE)
  \/ \E i \in OpIds : RestSessionCreate(i, FALSE)
  \/ \E c \in Conns, sid \in {1, 2} : JoinStart(c, sid)
  \/ \E c \in Conns, sid \in {1, 2} : Leave(c, sid)
  \/ \E c \in Conns, sid \in {1, 2} : SendStart(c, <<"h">>, "alice", sid)
  \/ \E i \in OpIds : SendCreateMessage(i, FALSE)
  \/ \E i \in OpIds : SendUpdate(i, FALSE)
SpecLegacy == InitReject /\ [][NextLegacy]_vars

\* --- pushes of the REST layer under both handlers: the stored database,
\* alice holding up to two sockets, bob marking his messages read over REST
NextPush ==
  \/ \E c \in Conns : Connect(c, "alice")
  \/ \E c \in Conns : AuthResolve(c, FALSE)
  \/ \E c \in Conns : Disconnect(c)
  \/ RestReadStart("bob", 1)
  \/ \E i \in OpIds : RestReadFind(i, FALSE)
  \/ \E i \in OpIds : RestReadUpdate(i, FALSE)
  \/ \E i \in OpIds : RestReadEmit(i, FALSE)
SpecPush == InitStored /\ [][NextPush]_vars

\* --- interleaving under the accept handler: sends, joins and mark-reads of
\* one socket suspended at their awaits while the other socket connects,
\* joins, leaves and disconnects
NextInterleave ==
  \/ \E c \in Conns : Connect(c, UserOf(c))
  \/ \E c \in Conns : AuthResolve(c, FALSE)
  \/ \E c \in Conns : Disconnect(c)
  \/ \E c \in Conns : JoinStart(c, 1)
  \/ \E i \in OpIds : JoinFind(i, FALSE)
  \/ \E c \in Conns : Leave(c, 1)
  \/ \E c \in Conns : SendStart(c, <<"h">>, Peer(c), AbsentId)
  \/ \E i \in OpIds : SendFind(i, FALSE)
  \/ \E i \in OpIds : SendCreateSession(i, FALSE)
  \/ \E i \in OpIds : SendCreateMessage(i, FALSE)
  \/ \E i \in OpIds : SendUpdate(i, FALSE)
  \/ \E c \in Conns : ReadStart(c, 1, {1})
  \/ \E i \in OpIds : ReadFind(i, FALSE)
  \/ \E i \in OpIds : ReadUpdate(i, FALSE)
SpecInterleave == InitAccept /\ [][NextInterleave]_vars

\* --- progress of send-message under the accept handler: every persistence
\* call of a suspended send eventually returns or throws; sockets join the
\* room, close at any point, and send blank or proper content.  A send is
\* accepted while the message table has room for its row.
LiveContents == {<<"h">>, <<" ">>}
SendRoom ==
  Len(messages) + Cardinality({i \in OpIds : ops[i].kind = "send" /\ ops[i].mid = 0})
    < MaxMessages
SendAdvance(i) ==
  \E f \in BOOLEAN :
    \/ SendFind(i, f)
    \/ SendCreateSession(i, f)
    \/ SendCreateMessage(i, f)
    \/ SendUpdate(i, f)
NextLive ==
  \/ \E c \in Conns : Connect(c, UserOf(c))
  \/ \E c \in Conns : AuthResolve(c, FALSE)
  \/ \E c \in Conns : Disconnect(c)
  \/ \E c \in Conns : JoinStart(c, 1)
  \/ \E i \in OpIds : JoinFind(i, FALSE)
  \/ \E c \in Conns, t \in LiveContents : SendRoom /\ SendStart(c, t, Peer(c), AbsentId)
  \/ \E i \in OpIds, f \in BOOLEAN : SendFind(i, f)
  \/ \E i \in OpIds, f \in BOOLEAN : SendCreateSession(i, f)
  \/ \E i \in OpIds, f \in BOOLEAN : SendCreateMessage(i, f)
  \/ \E i \in OpIds, f \in BOOLEAN : SendUpdate(i, f)
SpecLive ==
  /\ InitAccept
  /\ [][NextLive]_vars
  /\ \A i \in OpIds : WF_vars(SendAdvance(i))

\* ====================================================================== claims
PairOf(s) == {chatSessions[s].participant1Id, chatSessions[s].participant2Id}
Ends(m) == {messages[m].senderId, messages[m].receiverId}

\* C1 (checked under SpecRace): send-message events without a conversation id
\* that overlap for one unordered pair, starting with no ChatSession for it,
\* create exactly one ChatSession and their messages carry the same
\* chatSessionId.
C1_ConcurrentFirstSendsShareOneSession ==
  /\ \A s, t \in SessionIds : s # t => PairOf(s) # PairOf(t)
  /\ \A m, n \in MessageIds : Ends(m) = Ends(n) => messages[m].chatSessionId = messages[n].chatSessionId

\* C2 (checked under SpecPairsSeq): after any sequence of send-message events
\* and POST /session requests, also run strictly one after the other, no two
\* ChatSessions have the same unordered pair of participants.
C2_OneSessionPerPair ==
  \A s \in SessionIds : \A t \in SessionIds \ {s} : PairOf(s) # PairOf(t)

\* C3 (checked under SpecAuth, both handlers): a connection that has not
\* authenticated successfully has no presence entry, no room membership and
\* no handler invocation, and no step taken for it (events it sends, its
\* disconnect, the failure of its authentication) changes the registry, the
\* rooms, the ChatSession and Message rows or the read timestamps, or emits
\* anything but an auth_error to that connection itself.
C3_UnauthenticatedHasNoEffect ==
  [][\A c \in Conns :
       conn'[c].phase # "authed" =>
         /\ \A u \in Users : onlineUsers'[u] # c
         /\ rooms'[c] = {}
         /\ \A i \in OpIds : ops'[i].conn # c
         /\ last'.conn = c =>
              /\ onlineUsers' = onlineUsers
              /\ rooms' = rooms
              /\ chatSessions' = chatSessions
              /\ messages' = messages
              /\ ops' = ops
              /\ clock' = clock
              /\ \A k \in 1..Len(out') : out'[k].to = c /\ out'[k].ev = "auth_error"]_vars

\* a connection was just turned away while another user is registered and a
\* message has been stored
C3_Witness ==
  /\ last.act = "AuthResolve"
  /\ conn[last.conn].phase = "rejected"
  /\ OnlineKeys # {}
  /\ messages # <<>>

\* C4 (checked under SpecRooms): every member of room chat:C is a socket
\* authenticated as one of the two participants of ChatSession C, and a
\* join-chat naming a conversation that does not exist or that the user is no
\* participant of leaves the rooms unchanged and emits one error event to the
\* joining socket.
C4_RoomMembersAreParticipants ==
  [][/\ \A c \in Conns : \A s \in rooms'[c] :
          /\ conn'[c].phase = "authed"
          /\ s \in 1..Len(chatSessions')
          /\ conn'[c].userId \in {chatSessions'[s].participant1Id, chatSessions'[s].participant2Id}
     /\ \A i \in OpIds :
          (/\ ops[i].kind = "join"
           /\ ops'[i] # ops[i]
           /\ last'.res # "dbError"
           /\ \/ ops[i].sid \notin SessionIds
              \/ ops[i].user \notin {chatSessions[ops[i].sid].participant1Id,
                                     chatSessions[ops[i].sid].participant2Id})
          => /\ rooms' = rooms
             /\ out' = IF conn[ops[i].conn].open
                       THEN <<Ev(ops[i].conn, "error",
                                 [NoPayload EXCEPT !.text = "Chat session not found"])>>
                       ELSE <<>>]_vars

\* bob's join of the conversation of alice and carol was just turned down
C4_Witness ==
  /\ last.act = "JoinFind"
  /\ last.res = "notFound"
  /\ last.op.sid \in SessionIds
  /\ last.op.user \notin PairOf(last.op.sid)
  /\ \E c \in Conns : rooms[c] # {}

\* C5 (checked under SpecConv): every Message row stored by send-message has
\* a sender and a receiver that are both participants of the message's
\* ChatSession and that are different users.
C5_MessageEndsAreParticipants ==
  \A m \in MessageIds :
    /\ messages[m].senderId \in PairOf(messages[m].chatSessionId)
    /\ messages[m].receiverId \in PairOf(messages[m].chatSessionId)
    /\ messages[m].senderId # messages[m].receiverId

\* C6 (checked under SpecConv): a send-message naming an existing ChatSession
\* the sender is no participant of gets one error event on the sender's
\* socket and nothing else: no Message row, no change of the ChatSession, no
\* further invocation step, no event to the room or to the receiver.
C6_OutsiderSendRejected ==
  [][\A i \in OpIds :
       (/\ ops[i].kind = "send" /\ ops[i].pc = "find"
        /\ ops'[i] # ops[i]
        /\ last'.res # "dbError"
        /\ ops[i].sid \in SessionIds
        /\ ops[i].user \notin {chatSessions[ops[i].sid].participant1Id,
                               chatSessions[ops[i].sid].participant2Id})
       => /\ messages' = messages
          /\ chatSessions' = chatSessions
          /\ ops'[i] = IdleOp
          /\ out' = IF conn[ops[i].conn].open
                    THEN <<Ev(ops[i].conn, "error",
                              [NoPayload EXCEPT !.text = "You are not part of this chat session"])>>
                    ELSE <<>>]_vars

\* an outsider's send into an existing conversation was just turned down
C6_Witness ==
  /\ last.act = "SendFind"
  /\ last.res = "notParticipant"
  /\ last.op.sid \in SessionIds
  /\ last.op.user \notin PairOf(last.op.sid)

\* blank content: absent, empty, or whitespace only
Blank(content) ==
  \/ content = NoContent
  \/ \A k \in 1..Len(content) : content[k] = " "

\* C7 (checked under SpecConv): a send-message whose content is absent, empty
\* or only whitespace emits one error event to the sender and starts nothing:
\* no invocation proceeds to the database, so no ChatSession and no Message
\* row is created for it and no new-message, message-notification or
\* message-sent event follows.
C7_BlankContentRejected ==
  /\ \A i \in OpIds : ops[i].kind = "send" => ~Blank(ops[i].content)
  /\ \A m \in MessageIds : ~Blank(messages[m].content)
  /\ (last.act = "SendStart" /\ last.res = "await") =>
        \E i \in OpIds : ops[i].kind = "send" /\ ops[i].pc = "find" /\ ~Blank(ops[i].content)
  /\ (last.act = "SendStart" /\ last.res = "contentRequired") =>
        /\ Blank(last.op.content)
        /\ out = <<Ev(last.conn, "error",
                      [NoPayload EXCEPT !.text = "Message content is required"])>>

\* a whitespace-only send was just turned down while a conversation exists
C7_Witness ==
  /\ last.act = "SendStart"
  /\ last.res = "contentRequired"
  /\ last.op.content = <<" ">>
  /\ chatSessions # <<>>

\* C8 (checked under SpecRead, both handlers and the REST route): whenever
\* the read timestamp of a message changes, the step is the update of a
\* mark-read called by the user the message is addressed to.
C8_OnlyReceiverMarksRead ==
  [][\A m \in 1..Len(messages) :
       messages'[m].readAt # messages[m].readAt =>
         \E i \in OpIds :
           /\ ops[i].kind \in {"read", "restRead"}
           /\ ops'[i] # ops[i]
           /\ ops[i].user = messages[m].receiverId]_vars

\* alice asked over the socket to mark a message addressed to bob, and the
\* update left it unread
C8_Witness ==
  /\ last.act = "ReadUpdate"
  /\ last.res = "noRows"
  /\ \E m \in last.op.mids :
       /\ messages[m].receiverId # last.op.user
       /\ messages[m].readAt = 0

\* C9 (checked under SpecRead): a read timestamp changes only from null to
\* non-null, hence at most once; a mark-read over ids that are all read
\* already updates no row and leaves every timestamp as it was.
C9_ReadTimestampSetOnce ==
  [][\A m \in 1..Len(messages) :
       messages'[m].readAt # messages[m].readAt =>
         /\ messages[m].readAt = 0
         /\ messages'[m].readAt # 0]_vars

\* bob's second mark-read of both messages found nothing left to update
C9_Witness ==
  /\ last.act = "ReadUpdate"
  /\ last.res = "noRows"
  /\ last.op.mids = {1, 2}
  /\ \A m \in last.op.mids :
       /\ messages[m].receiverId = last.op.user
       /\ messages[m].readAt # 0
       /\ messages[m].readAt < clock

\* C10 (checked under SpecRead): when the update of a mark-read for
\* conversation C with ids {m1, m2}, both unread messages of C addressed to
\* the caller, completes, both rows have a read timestamp and, if the other
\* participant has a presence entry, the connection it names receives exactly
\* one messages-read event carrying C and exactly {m1, m2}.
C10_ReadReceiptReachesSender ==
  [][\A i \in OpIds :
       (/\ ops[i].kind = "read" /\ ops[i].pc = "update"
        /\ ops'[i] # ops[i]
        /\ last'.res # "dbError"
        /\ ops[i].mids = {1, 2}
        /\ \A m \in ops[i].mids :
             /\ messages[m].chatSessionId = ops[i].sid
             /\ messages[m].receiverId = ops[i].user
             /\ messages[m].readAt = 0)
       => /\ \A m \in ops[i].mids : messages'[m].readAt # 0
          /\ LET h == onlineUsers[OtherParticipant(ops[i].sid, ops[i].user)]
             IN h # 0 =>
                  out' = <<Ev(h, "messages-read",
                              [NoPayload EXCEPT !.sid = ops[i].sid, !.mids = ops[i].mids])>>]_vars

\* C11 (checked under SpecRead): the id list of every messages-read event
\* emitted by the socket mark-read handler is the set of messages whose read
\* timestamp that call set; ids already read, addressed to someone else or
\* naming no row are not listed.
C11_ReceiptListsUpdatedIds ==
  [][\A k \in 1..Len(out') :
       (last'.act = "ReadUpdate" /\ out'[k].ev = "messages-read") =>
         out'[k].p.mids = {m \in 1..Len(messages) : messages'[m].readAt # messages[m].readAt}]_vars

\* C12 (checked under SpecRead): a socket mark-read naming a conversation
\* that does not exist or that the caller is no participant of ends at the
\* lookup: no message row changes and no event is emitted to anyone.
C12_OutsiderReadIsSilent ==
  [][\A i \in OpIds :
       (/\ ops[i].kind = "read" /\ ops[i].pc = "find"
        /\ ops'[i] # ops[i]
        /\ \/ ops[i].sid \notin SessionIds
           \/ ops[i].user \notin {chatSessions[ops[i].sid].participant1Id,
                                  chatSessions[ops[i].sid].participant2Id})
       => /\ messages' = messages
          /\ out' = <<>>
          /\ ops'[i] = IdleOp]_vars

\* bob's mark-read naming the conversation of alice and carol was dropped
\* while alice is registered and his messages are unread
C12_Witness ==
  /\ last.act = "ReadFind"
  /\ last.res = "notFound"
  /\ last.op.sid \in SessionIds
  /\ last.op.user \notin PairOf(last.op.sid)
  /\ \E m \in last.op.mids : messages[m].receiverId = last.op.user /\ messages[m].readAt = 0
  /\ onlineUsers["alice"] # 0

\* C13 (checked under SpecDeliver): when a send-message succeeds and the
\* registry names an open connection h for the receiver, h is sent the message
\* directly whether or not it is in the conversation's room, on top of the
\* room's new-message: one event carrying the message when h is outside the
\* room, two when it is inside.
C13_ReceiverNotifiedDirectly ==
  [][\A i \in OpIds :
       (/\ ops[i].kind = "send" /\ ops[i].pc = "update"
        /\ ops'[i] # ops[i]
        /\ last'.res = "sent"
        /\ onlineUsers[ops[i].receiverId] # 0
        /\ conn[onlineUsers[ops[i].receiverId]].open)
       => LET h == onlineUsers[ops[i].receiverId]
              got == {k \in 1..Len(out') :
                        /\ out'[k].to = h
                        /\ out'[k].ev \in {"new-message", "message-notification"}
                        /\ out'[k].p.mid = ops[i].mid}
          IN Cardinality(got) = IF ops[i].session \in rooms[h] THEN 2 ELSE 1]_vars

\* C14 (checked under SpecFault): when a persistence call of send-message
\* fails (lookup, session create, message create or session update), the only
\* event of that send is one error event to the sending connection (none at
\* all once that connection has closed): no other connection receives
\* anything and no new-message or message-notification is emitted.
C14_PersistenceFailureErrorsSenderOnly ==
  [][\A i \in OpIds :
       (/\ ops[i].kind = "send"
        /\ ops'[i] # ops[i]
        /\ last'.res = "dbError")
       => /\ out' = IF conn[ops[i].conn].open
                    THEN <<Ev(ops[i].conn, "error",
                              [NoPayload EXCEPT !.text = "Failed to send message"])>>
                    ELSE <<>>
          /\ ops'[i] = IdleOp]_vars

\* the session update of a send just failed after its message was stored,
\* with the peer sitting in the conversation's room
C14_Witness ==
  /\ last.act = "SendUpdate"
  /\ last.res = "dbError"
  /\ conn[last.conn].open
  /\ messages # <<>>
  /\ \E d \in Conns : d # last.conn /\ rooms[d] # {}

\* C15 (checked under SpecDeliver, accept handler): the members of a conversation's room are
\* sent the new-message events of its messages in the order the inserts were
\* acknowledged (the order of the message ids): no new-message is emitted to
\* the room while an earlier-inserted message of the same conversation still
\* waits for its session update before its own emission.
C15_RoomDeliveryFollowsInsertOrder ==
  [][\A i \in OpIds :
       (/\ strategy = "accept"
        /\ ops[i].kind = "send" /\ ops[i].pc = "update"
        /\ ops'[i] # ops[i]
        /\ last'.res = "sent"
        /\ \E d \in Conns : ops[i].session \in rooms[d])
       => ~ \E j \in OpIds \ {i} :
              /\ ops[j].kind = "send" /\ ops[j].pc = "update"
              /\ ops[j].session = ops[i].session
              /\ ops[j].mid < ops[i].mid]_vars

\* C16 (checked under SpecPresence): under the accept handler every entry
\* u -> h of the presence registry names a connection that is open and
\* authenticated as u.
C16_EntriesNameLiveConnections ==
  strategy = "accept" =>
    \A u \in Users :
      onlineUsers[u] # 0 =>
        /\ conn[onlineUsers[u]].open
        /\ conn[onlineUsers[u]].phase = "authed"
        /\ conn[onlineUsers[u]].userId = u

\* C17 (checked under SpecPresence): every user with an open connection that
\* completed authentication has an entry in the presence registry.
C17_OnlineUsersHaveEntries ==
  \A c \in Conns :
    (conn[c].open /\ conn[c].phase = "authed") => onlineUsers[conn[c].userId] # 0

\* the events of one kind the last step sent to connection d
Sent(d, ev) == {k \in 1..Len(out) : out[k].to = d /\ out[k].ev = ev}

\* C18 (checked under SpecPresence): when a connection registers for a user
\* who already has a presence entry, the entry afterwards names the new
\* connection, the other users' entries are untouched, and the superseded
\* connection stays as it was: not closed, same rooms, and sent nothing by
\* the registration but the one user-online broadcast.
C18_RegistrationSupersedes ==
  [][\A c \in Conns :
       (/\ conn[c].phase = "verifying"
        /\ conn'[c].phase = "authed"
        /\ onlineUsers[conn'[c].userId] \notin {0, c})
       => LET u == conn'[c].userId
              old == onlineUsers[u]
          IN /\ onlineUsers' = [onlineUsers EXCEPT ![u] = c]
             /\ conn'[old] = conn[old]
             /\ rooms'[old] = rooms[old]
             /\ \A k \in 1..Len(out') :
                  out'[k].to = old =>
                    /\ out'[k].ev = "user-online"
                    /\ out'[k].p.user = u
                    /\ \A j \in 1..Len(out') : out'[j].to = old => j = k]_vars

\* alice's second socket just registered while her first one is open,
\* registered before it, and in a room
C18_Witness ==
  /\ last.act = "AuthResolve"
  /\ last.res = "registered"
  /\ \E d \in Conns \ {last.conn} :
       /\ conn[d].open
       /\ conn[d].phase = "authed"
       /\ conn[d].userId = conn[last.conn].userId
       /\ rooms[d] # {}
       /\ Sent(d, "user-online") # {}
  /\ onlineUsers[conn[last.conn].userId] = last.conn

\* C19 (checked under SpecPresence): when connection c registers for user u,
\* every other connected socket is sent one user-online event carrying u, and
\* c (if still open) is sent one online-users event whose list is the key set
\* of the registry after the registration, u included.
C19_RegistrationAnnounces ==
  (last.act = "AuthResolve" /\ last.res = "registered") =>
    LET c == last.conn
        u == conn[c].userId
    IN /\ \A d \in Conns \ {c} :
            Connected(d) =>
              /\ Cardinality(Sent(d, "user-online")) = 1
              /\ \A k \in Sent(d, "user-online") : out[k].p.user = u
       /\ Sent(c, "user-online") = {}
       /\ conn[c].open =>
            /\ Cardinality(Sent(c, "online-users")) = 1
            /\ \A k \in Sent(c, "online-users") :
                 /\ out[k].p.users = {v \in Users : onlineUsers[v] # 0}
                 /\ u \in out[k].p.users

\* bob just registered while alice is registered and her socket open
C19_Witness ==
  /\ last.act = "AuthResolve"
  /\ last.res = "registered"
  /\ conn[last.conn].open
  /\ conn[last.conn].userId = "bob"
  /\ onlineUsers["alice"] # 0
  /\ conn[onlineUsers["alice"]].open
  /\ Sent(onlineUsers["alice"], "user-online") # {}

\* C20 (checked under SpecPresence): when an authenticated connection of user
\* u disconnects, the entry of u is removed and one user-offline event
\* carrying u is sent to the connection of every user that remains in the
\* registry, and none to the disconnecting connection.
C20_DisconnectAnnounces ==
  (last.act = "Disconnect" /\ last.res = "handler") =>
    LET c == last.conn
        u == conn[c].userId
    IN /\ onlineUsers[u] = 0
       /\ \A v \in Users :
            onlineUsers[v] # 0 =>
              /\ Cardinality(Sent(onlineUsers[v], "user-offline")) = 1
              /\ \A k \in Sent(onlineUsers[v], "user-offline") : out[k].p.user = u
       /\ Sent(c, "user-offline") = {}

C22_ClosedSenderStillDelivers ==
  [][\A i \in OpIds :
       (ops[i].kind = "send" /\ ~conn[ops[i].conn].open) =>
         /\ last'.act = "Disconnect" => ops'[i] = ops[i]
         /\ (ops[i].pc = "createMessage" /\ ops'[i] # ops[i] /\ last'.res # "dbError") =>
               /\ Len(messages') = Len(messages) + 1
               /\ messages'[Len(messages')].senderId = ops[i].user
               /\ ops'[i].pc = "update"
         /\ (ops[i].pc = "update" /\ ops'[i] # ops[i] /\ last'.res # "dbError") =>
               LET s == ops[i].session
                   h == onlineUsers[ops[i].receiverId]
                   members == {d \in Conns : conn[d].open /\ s \in rooms[d]}
                   direct == IF h # 0 /\ conn[h].open /\ s \notin rooms[h] THEN {h} ELSE {}
               IN /\ Len(out') = Cardinality(members) + Cardinality(direct)
                  /\ \A d \in members :
                       \E k \in 1..Len(out') :
                         out'[k].to = d /\ out'[k].ev = "new-message" /\ out'[k].p.mid = ops[i].mid
                  /\ \A d \in direct :
                       \E k \in 1..Len(out') :
                         /\ out'[k].to = d /\ out'[k].ev = "message-notification"
                         /\ out'[k].p.mid = ops[i].mid]_vars

\* a send of a socket that closed meanwhile just completed and reached the peer
C22_Witness ==
  /\ last.act = "SendUpdate"
  /\ last.res = "sent"
  /\ ~conn[last.conn].open
  /\ out # <<>>
  /\ messages # <<>>

\* C23 (checked under SpecAuth): under the accept handler a connection whose
\* authentication fails (no credentials, no session, verifier error) is sent
\* one auth_error event in the step that disconnects it, and auth_error is
\* never sent otherwise; a socket the client had closed already gets nothing.
C23_AuthErrorBeforeClose ==
  [][strategy = "accept" =>
       /\ \A c \in Conns :
            (conn[c].phase # "rejected" /\ conn'[c].phase = "rejected") =>
              /\ ~conn'[c].open
              /\ out' = IF conn[c].open \/ conn[c].phase = "new"
                        THEN <<Ev(c, "auth_error",
                                  [NoPayload EXCEPT !.text =
                                     IF last'.res = "noCredentials" THEN "Authentication required"
                                     ELSE IF last'.res = "noSession" THEN "Invalid session"
                                     ELSE "Authentication failed"])>>
                        ELSE <<>>
       /\ \A k \in 1..Len(out') :
            out'[k].ev = "auth_error" =>
              conn[out'[k].to].phase # "rejected" /\ conn'[out'[k].to].phase = "rejected"]_vars

\* the verifier just answered "no session" for an open socket of the accept handler
C23_Witness ==
  /\ strategy = "accept"
  /\ last.act = "AuthResolve"
  /\ last.res = "noSession"
  /\ conn[last.conn].phase = "rejected"
  /\ ~conn[last.conn].open
  /\ Sent(last.conn, "auth_error") # {}

\* C24 (checked under SpecAuth, both handlers): for a connection that
\* presents neither a cookie nor a token the session verifier is never called.
C24_NoCredentialsNoVerifierCall ==
  \A c \in Conns : conn[c].cred = "nocreds" => ~conn[c].asked

\* C25 (checked under SpecAuth, both handlers): an error raised by the
\* verifier rejects the connection it was raised for and touches nothing
\* else: no registration, the other connections, the registry, the rooms,
\* the pending invocations and the stored rows stay as they were, and no
\* other connection is sent anything.
C25_VerifierErrorIsLocal ==
  [][last'.res = "verifierError" =>
       LET c == last'.conn
       IN /\ conn'[c].phase = "rejected"
          /\ ~conn'[c].open
          /\ \A d \in Conns \ {c} : conn'[d] = conn[d]
          /\ onlineUsers' = onlineUsers
          /\ rooms' = rooms
          /\ ops' = ops
          /\ chatSessions' = chatSessions
          /\ messages' = messages
          /\ \A k \in 1..Len(out') : out'[k].to = c]_vars

\* the verifier just threw for one socket while the other is registered, open
\* and has an invocation pending or a room joined
C25_Witness ==
  /\ last.act = "AuthResolve"
  /\ last.res = "verifierError"
  /\ \E d \in Conns \ {last.conn} :
       /\ conn[d].open
       /\ conn[d].phase = "authed"
       /\ onlineUsers[conn[d].userId] = d
       /\ rooms[d] # {} \/ \E i \in OpIds : ops[i].conn = d

\* C26 (checked under SpecLegacy): under the reject handler a connection
\* enters the room of an existing conversation only if its user is a
\* participant of it.
C26_LegacyJoinChecksParticipant ==
  [][\A c \in Conns : \A s \in (rooms'[c] \ rooms[c]) \cap SessionIds :
       conn[c].userId \in {chatSessions[s].participant1Id,
                           chatSessions[s].participant2Id}]_vars

\* C27 (checked under SpecLegacy): under the reject handler the sender of
\* every stored Message is a participant of the message's conversation.
C27_LegacySendChecksParticipant ==
  \A m \in MessageIds :
    messages[m].senderId \in {chatSessions[messages[m].chatSessionId].participant1Id,
                              chatSessions[messages[m].chatSessionId].participant2Id}

\* C28 (checked under SpecPresence, accept handler): when two connections of
\* one user are both open and authenticated, the registry maps the user to
\* the one that was opened later.
C28_RegistryNamesLaterConnection ==
  \A c, d \in Conns :
    (/\ strategy = "accept"
     /\ c < d
     /\ conn[c].open /\ conn[c].phase = "authed"
     /\ conn[d].open /\ conn[d].phase = "authed"
     /\ conn[c].userId = conn[d].userId)
    => onlineUsers[conn[d].userId] = d

\* C29 (checked under SpecFault): a message-sent confirmation is emitted only
\* by the step that completes the ChatSession update of a send whose Message
\* row was stored before: the row named by the confirmation exists, belongs
\* to the session, and the session's updatedAt advances in that step.
C29_ConfirmationFollowsInsertAndUpdate ==
  [][\A k \in 1..Len(out') :
       out'[k].ev = "message-sent" =>
         \E i \in OpIds :
           /\ ops[i].kind = "send" /\ ops[i].pc = "update"
           /\ ops'[i] = IdleOp
           /\ out'[k].to = ops[i].conn
           /\ out'[k].p.mid = ops[i].mid
           /\ ops[i].mid \in 1..Len(messages)
           /\ messages[ops[i].mid].chatSessionId = ops[i].session
           /\ messages' = messages
           /\ chatSessions'[ops[i].session].updatedAt
                = chatSessions[ops[i].session].updatedAt + 1]_vars

\* a send was just confirmed to its open socket
C29_Witness ==
  /\ last.act = "SendUpdate"
  /\ last.res = "sent"
  /\ Sent(last.conn, "message-sent") # {}
  /\ \E s \in SessionIds : chatSessions[s].updatedAt > 0

\* C30 (checked under SpecPush): when the REST mark-read route pushes
\* messages-read to a user who has more than one open authenticated
\* connection, the connection it picks is the one the presence registry maps
\* the user to.
C30_RestPushUsesRegistryConnection ==
  [][\A i \in OpIds :
       (/\ ops[i].kind = "restRead" /\ ops[i].pc = "findMany"
        /\ ops'[i] # ops[i]
        /\ last'.res = "200")
       => LET u == IF chatSessions[ops[i].session].participant1Id = ops[i].user
                   THEN chatSessions[ops[i].session].participant2Id
                   ELSE chatSessions[ops[i].session].participant1Id
              mine == {c \in Conns : conn[c].open /\ conn[c].phase = "authed"
                                       /\ conn[c].userId = u}
          IN Cardinality(mine) > 1 =>
               /\ out' # <<>>
               /\ \A k \in 1..Len(out') : out'[k].to = onlineUsers[u]]_vars

\* C31 (checked under SpecInterleave): while a send-message, join-chat or
\* mark-read of one connection is suspended at a database await, every other
\* connection can still connect, be registered, disconnect, leave and (an
\* invocation slot being free) join, and its disconnect removes its registry
\* entry and its rooms in that very step.
C31_OthersProceedDuringAwait ==
  \A i \in OpIds :
    ops[i].kind \in {"send", "join", "read"} =>
      \A d \in Conns \ {ops[i].conn} :
        /\ (conn[d].phase = "new" /\ \A e \in Conns : e < d => conn[e].phase # "new")
             => ENABLED Connect(d, UserOf(d))
        /\ conn[d].phase = "verifying"
             => ENABLED (AuthResolve(d, FALSE) /\ onlineUsers'[UserOf(d)] = d)
        /\ (conn[d].open /\ conn[d].phase = "authed")
             => /\ ENABLED (Disconnect(d) /\ onlineUsers'[conn[d].userId] = 0 /\ rooms'[d] = {})
                /\ ENABLED (Leave(d, 1) /\ 1 \notin rooms'[d])
                /\ HasFreeOp => ENABLED JoinStart(d, 1)

\* bob's socket just left the room while a send of alice's socket is
\* suspended at an await
C31_Witness ==
  /\ last.act = "Leave"
  /\ last.res = "left"
  /\ \E i \in OpIds : ops[i].kind = "send" /\ ops[i].conn # last.conn

\* what a leave-chat step does, and when the handler accepts the event
C32_LeaveStep ==
  last'.act = "Leave" =>
    LET c == last'.conn
        sid == last'.op.sid
    IN  /\ out' = <<>>
        /\ rooms'[c] = rooms[c] \ {sid}
        /\ \A d \in Conns \ {c} : rooms'[d] = rooms[d]
        /\ sid \notin rooms[c] => rooms' = rooms
        /\ UNCHANGED <<conn, onlineUsers, chatSessions, messages, ops>>
C32_LeaveAccepted ==
  \A c \in Conns : \A sid \in RoomSids :
    (conn[c].open /\ conn[c].phase = "authed") => ENABLED Leave(c, sid)
\* C32 (checked under SpecRooms): leave-chat never fails and is idempotent:
\* it is enabled for every open authenticated socket and every session id,
\* emits nothing, leaves the socket outside the room, changes nothing at all
\* when the socket was not a member (so a second leave-chat equals the first),
\* and never touches another socket's membership or the socket's other rooms.
C32_LeaveIdempotent == [][C32_LeaveStep]_vars /\ []C32_LeaveAccepted

\* a socket that is in another room sent leave-chat for a room it is not in
C32_Witness ==
  /\ last.act = "Leave"
  /\ last.res = "notMember"
  /\ rooms[last.conn] # {}
  /\ \E d \in Conns \ {last.conn} : last.op.sid \in rooms[d]

\* the step in which a join-chat completes right after a leave-chat of the same socket for the same session
C33_JoinCompletes ==
  \A i \in OpIds :
    ( /\ ops[i].kind = "join" /\ ops'[i].kind = "idle"
      /\ last.act = "Leave"
      /\ last.conn = ops[i].conn
      /\ last.op.sid = ops[i].sid
      /\ conn[ops[i].conn].open )
    => ops[i].sid \notin rooms'[ops[i].conn]
\* C33 (checked under SpecRooms; violated): a socket sent join-chat for C
\* and then leave-chat for C while the join's participant lookup was still
\* awaited; once the join-chat handler has completed too, the socket is not
\* a member of chat:C.
C33_LeaveAfterJoinWins == [][C33_JoinCompletes]_vars

\* the step in which the updateMany of a mark-read is applied
C34_ReadUpdateStep ==
  \A i \in OpIds :
    ( /\ strategy = "accept"
      /\ ops[i].kind = "read" /\ ops[i].pc = "update" /\ ops'[i].kind = "idle" )
    => \A m \in MessageIds :
         messages'[m].readAt # messages[m].readAt
           => messages[m].chatSessionId = ops[i].sid
\* C34 (checked under SpecRead; violated): a socket mark-read for
\* conversation C sets readAt only on messages of C; a message of another
\* conversation stays unread even when its id is in the supplied list.
C34_MarkReadStaysInConversation == [][C34_ReadUpdateStep]_vars

\* the recipients of the events of one step
C35_EmitStep ==
  strategy = "accept" =>
    \A k \in 1..Len(out') :
      (conn[out'[k].to].phase # "authed" /\ conn'[out'[k].to].phase # "authed")
        => out'[k].ev = "auth_error"
\* C35 (checked under SpecPresence; violated): under the accept handler no
\* event other than auth_error is emitted to a socket whose authentication
\* has not succeeded; a socket still awaiting the verifier receives no
\* user-online, user-offline, new-message or user-typing.
C35_NothingBeforeAuthentication == [][C35_EmitStep]_vars

\* the step in which a send-message ends
C36_SendEnds ==
  \A i \in OpIds :
    (ops[i].kind = "send" /\ ops'[i].kind = "idle")
    => /\ (\E k \in 1..Len(out') :
             /\ out'[k].ev = "error"
             /\ out'[k].p.text = "Failed to send message")
          => ops[i].mid = 0
       /\ ops[i].mid # 0 => last'.res = "sent"
\* C36 (checked under SpecFault; violated): persisting and broadcasting are
\* all-or-nothing in send-message: a send that ends with the error 'Failed to
\* send message' has created no Message row, and a send that has created a
\* row ends with the new-message emit to the conversation's room.
C36_PersistAndBroadcastTogether == [][C36_SendEnds]_vars

\* the reply events of one step and the steps of a send-message
Replies(c) ==
  {k \in 1..Len(out') : out'[k].to = c /\ out'[k].ev \in {"error", "message-sent"}}
C37_ReplyStep ==
  /\ (last'.act = "SendStart" /\ last'.res = "contentRequired")
       => /\ Cardinality(Replies(last'.conn)) = 1
          /\ \A k \in Replies(last'.conn) : out'[k].ev = "error"
  /\ (last'.act = "SendStart" /\ last'.res = "await") => out' = <<>>
  /\ \A i \in OpIds :
       (ops[i].kind = "send" /\ ops'[i] # ops[i]) =>
         LET c == ops[i].conn
         IN IF ops'[i].kind # "idle"
            THEN out' = <<>>
            ELSE /\ Cardinality(Replies(c)) = IF conn[c].open THEN 1 ELSE 0
                 /\ \A k \in Replies(c) :
                      out'[k].ev = "message-sent" =>
                        /\ last'.res = "sent"
                        /\ out'[k].p.mid = ops[i].mid
                        /\ \A d \in Conns :
                             (ops[i].session \in rooms[d] /\ Connected(d)) =>
                               \E j \in 1..(k - 1) :
                                 /\ out'[j].to = d
                                 /\ out'[j].ev = "new-message"
                                 /\ out'[j].p.mid = ops[i].mid
                        /\ \A j \in 1..Len(out') :
                             out'[j].ev = "new-message" => j < k
                 /\ last'.res = "sent" =>
                      \A k \in Replies(c) : out'[k].ev = "message-sent"
\* C37 (checked under SpecLive, where every persistence call eventually
\* returns or throws): each send-message received on an authenticated socket
\* ends, and it yields exactly one reply to that socket, an error or a
\* message-sent, never both and never neither (none when the socket has
\* closed meanwhile, its packets being discarded); no reply is emitted while
\* the send is suspended, and message-sent follows the new-message emits to
\* every socket of the conversation's room.
C37_ExactlyOneReply ==
  /\ [][C37_ReplyStep]_vars
  /\ \A i \in OpIds : (ops[i].kind = "send") ~> (ops[i].kind = "idle")

\* a send ended with message-sent after new-message went to two sockets of
\* the room
C37_Witness ==
  /\ last.act = "SendUpdate"
  /\ last.res = "sent"
  /\ Len(out) = 3
  /\ out[1].ev = "new-message" /\ out[2].ev = "new-message"
  /\ out[3].ev = "message-sent" /\ out[3].to = last.conn

\* the step in which a send-message ends successfully
C38_SendDelivers ==
  \A i \in OpIds :
    (ops[i].kind = "send" /\ ops'[i].kind = "idle" /\ last'.res = "sent") =>
      LET h == onlineUsers[ops[i].receiverId]
          got == {k \in 1..Len(out') :
                    /\ out'[k].to = h
                    /\ out'[k].ev \in {"new-message", "message-notification"}
                    /\ out'[k].p.mid = ops[i].mid}
      IN h # 0 =>
           /\ Cardinality(got) = 1
           /\ \A k \in got :
                out'[k].ev = "new-message" <=> ops[i].session \in rooms[h]
\* C38 (checked under SpecFault; violated): under the accept handler, for
\* each successful send the socket registered for the receiver gets the
\* message exactly once: new-message through the room when it is joined to
\* the conversation's room, otherwise one message-notification.
C38_ReceiverGetsMessageOnce == [][C38_SendDelivers]_vars

\* what a typing step emits
C39_TypingStep ==
  last'.act = "Typing" =>
    /\ \A k \in 1..Len(out') : out'[k].to # last'.conn
    /\ out' # <<>> =>
         /\ last'.op.sid \in rooms[last'.conn]
         /\ FindForUser(last'.op.sid, conn[last'.conn].userId) # {}
\* C39 (checked under SpecRooms; violated): user-typing is delivered to the
\* members of chat:C only when the socket that sent typing is itself a member
\* of chat:C and its user a participant of C, and never to the sending socket.
C39_TypingOnlyFromMembers == [][C39_TypingStep]_vars

====
